---- MODULE Spec2Model ----
(***************************************************************************)
(* Model of the Gemini service layer of kutbi2: the lazily created client  *)
(* (getAiInstance), the retry wrapper (callGeminiWithRetry) and the        *)
(* exported document operations, in the two variants of the service file:  *)
(*   "svc" = src/services/geminiService.ts, "p0" = src/unnamed/part_000.   *)
(*                                                                         *)
(* Texts are sequences of tokens.  An error message is the sequence of its *)
(* words (Arabic words transliterated), so that String.includes is a       *)
(* contiguous-subsequence test.  A response text is a sequence over a      *)
(* small alphabet of lexical tokens, so that the fence-stripping regular   *)
(* expression, trim and JSON.parse are computed, not assumed.              *)
(***************************************************************************)
EXTENDS Integers, Sequences, FiniteSets, TLC

\* ------------------------------------------------------------------ bounds
\* Longest payload (in tokens) drawn for the decoding specification.
MaxPayload == 3
\* Number of chunks a remote stream delivers at most.
MaxChunks == 2

\* ------------------------------------------------------- program constants
\* let attempts = 3;
RetryAttempts == 3
\* setTimeout(res, 1000)
RetryDelayMs == 1000

\* ------------------------------------------------------------ text helpers
\* s.includes(pat): pat occurs in s as a contiguous run of tokens.
Includes(s, pat) ==
    \E i \in 0..(Len(s) - Len(pat)) :
        \A j \in 1..Len(pat) : s[i + j] = pat[j]

\* The suffix of s that starts at index i (1-based); empty when i > Len(s).
DropTo(s, i) == IF i > Len(s) THEN <<>> ELSE SubSeq(s, i, Len(s))

\* Lexical tokens of a response text.
\* BT stands for the three backticks of a markdown code fence.
BT == "FENCE"
WS == "ws"
TextTokens == {BT, "json", WS, "[", "]", ",", "a"}

\* \s matches whitespace only.
IsSpace(tok) == tok = WS

\* Index of the first token of s at or after i that is not whitespace
\* (Len(s) + 1 when there is none).
RECURSIVE SkipSpace(_, _)
SkipSpace(s, i) ==
    IF i > Len(s) THEN i
    ELSE IF IsSpace(s[i]) THEN SkipSpace(s, i + 1)
    ELSE i

\* Index of the last token of s that is not whitespace (0 when none).
RECURSIVE LastNonSpace(_, _)
LastNonSpace(s, i) ==
    IF i = 0 THEN 0
    ELSE IF IsSpace(s[i]) THEN LastNonSpace(s, i - 1)
    ELSE i

\* String.prototype.trim
Trim(s) ==
    LET a == SkipSpace(s, 1)
        b == LastNonSpace(s, Len(s))
    IN  IF a > b THEN <<>> ELSE SubSeq(s, a, b)

\* First alternative of the regular expression, /^FENCEjson\s*/ : the text with
\* a leading fence-json and the whitespace after it removed.
StripOpenFence(s) ==
    IF Len(s) >= 2 /\ s[1] = BT /\ s[2] = "json"
    THEN DropTo(s, SkipSpace(s, 3))
    ELSE s

\* Second alternative, /FENCE\s*$/ : a fence followed only by whitespace up to the
\* end of the text is removed with that whitespace.
StripCloseFence(s) ==
    LET b == LastNonSpace(s, Len(s))
    IN  IF b >= 1 /\ s[b] = BT THEN SubSeq(s, 1, b - 1) ELSE s

\* textResponse.replace(/^FENCEjson\s*|FENCE\s*$/g, empty) : with the g flag the scan
\* goes on after the first match, so both alternatives apply, the second to
\* what the first left.
StripFences(s) == StripCloseFence(StripOpenFence(s))

\* ------------------------------------------------------------- JSON values
\* Literal tokens: each stands for one complete JSON scalar or object as the
\* remote service writes it.  "a" is a string, "n0" "n3" "n7" the numbers
\* 0 3 7, "n2h" the number 2.5, and the object literals are
\*   "oSent"  {"sentiment": "...", "explanation": "..."}
\*   "oRate7" {"rating": 7, "review": "..."}
\*   "oRate3" {"rating": 3, "review": "..."}
\*   "oRate0" {"rating": 0, "review": "..."}
\*   "oRateH" {"rating": 2.5, "review": "..."}
\*   "oQuiz4" {"question": "...", "options": [4 strings], "correctAnswerIndex": 1}
\*   "oQuiz3" the same with 3 options
\*   "oQuizH" the same as oQuiz4 with "correctAnswerIndex": 2.5
\*   "oEmpty" {}
NumberLits == {"n0", "n3", "n7", "n2h"}
ObjectLits ==
    {"oSent", "oRate7", "oRate3", "oRate0", "oRateH", "oQuiz4", "oQuiz3", "oQuizH",
     "oEmpty"}
Literals == {"a"} \cup NumberLits \cup ObjectLits

\* A decoded value: t is the JavaScript kind, lit the literal it came from,
\* items the elements of an array.
LitVal(tok) ==
    [t |-> IF tok = "a" THEN "string"
           ELSE IF tok \in NumberLits THEN "number" ELSE "object",
     lit |-> tok, items |-> <<>>]
ArrVal(items) == [t |-> "array", lit |-> "", items |-> items]
NoVal == [t |-> "undefined", lit |-> "", items |-> <<>>]

ParseFail == [ok |-> FALSE, val |-> NoVal, next |-> 0]

\* JSON.parse, by recursive descent over the tokens that are not whitespace:
\*   value ::= literal | "[" "]" | "[" value ("," value)* "]"
\* ParseValue(toks, i) parses one value that starts at index i.
RECURSIVE ParseValue(_, _), ParseElems(_, _, _)
ParseValue(toks, i) ==
    IF i > Len(toks) THEN ParseFail
    ELSE IF toks[i] \in Literals
         THEN [ok |-> TRUE, val |-> LitVal(toks[i]), next |-> i + 1]
    ELSE IF toks[i] = "["
         THEN IF i + 1 <= Len(toks) /\ toks[i + 1] = "]"
              THEN [ok |-> TRUE, val |-> ArrVal(<<>>), next |-> i + 2]
              ELSE ParseElems(toks, i + 1, <<>>)
    ELSE ParseFail

ParseElems(toks, i, acc) ==
    LET v == ParseValue(toks, i) IN
    IF ~v.ok \/ v.next > Len(toks) THEN ParseFail
    ELSE IF toks[v.next] = ","
         THEN ParseElems(toks, v.next + 1, Append(acc, v.val))
    ELSE IF toks[v.next] = "]"
         THEN [ok |-> TRUE, val |-> ArrVal(Append(acc, v.val)), next |-> v.next + 1]
    ELSE ParseFail

\* Whitespace between JSON tokens is insignificant.
NoSpace(s) == SelectSeq(s, LAMBDA tok : ~IsSpace(tok))

\* JSON.parse(text): the whole text must be one value.
JsonParse(s) ==
    LET toks == NoSpace(s)
        v == ParseValue(toks, 1)
    IN  IF v.ok /\ v.next = Len(toks) + 1
        THEN [ok |-> TRUE, val |-> v.val]
        ELSE [ok |-> FALSE, val |-> NoVal]

\* ---------------------------------------------------------- error objects
\* An error value: isError is "error instanceof Error", message its message,
\* src says who created it ("own": a throw statement of the service file,
\* "remote": the remote capability or the transport under it).
Err(msg) == [isError |-> TRUE, message |-> msg, src |-> "own"]
NoErr == [isError |-> FALSE, message |-> <<>>, src |-> "none"]

\* The messages of the service file, word by word.
MsgKeyMissing == <<"API_KEY_MISSING">>
MsgInitFailed ==
    <<"fashal", "fi", "tahyiat", "Gemini", "API", ".", "yurja", "altahaqquq",
      "min", "sihhat", "miftah", "API", "alkhass", "bik", ".">>
MsgEmptyResponse ==
    <<"arjaa", "alnamudhaj", "istijaba", "farigha", ".", "qad", "yakun",
      "almuhtawa", "ghayr", "wadih", "aw", "qasir", "jiddan", "liltahlil", ".">>
MsgEmptyJson == <<"arjaa", "alnamudhaj", "istijaba", "JSON", "farigha", ".">>
MsgBadJson ==
    <<"fashal", "alnamudhaj", "fi", "insha", "istijaba", "bitansiq", "JSON",
      "sahih", ".">>
MsgExhausted ==
    <<"fashal", "alittisal", "bi", "Gemini", "API", "baad", "iddat",
      "muhawalat", ".">>

\* The substrings the catch blocks look for.
PatGeminiApi == <<"Gemini", "API">>
PatEmptyResponse == <<"istijaba", "farigha">>
PatJson == <<"JSON">>
PatKeyNotValid == <<"API", "key", "not", "valid">>

\* Failures of the remote capability: a network failure, the service's
\* rejection of the key, a body that is not JSON (the runtime's message names
\* JSON), and a rejection with a value that is no Error object.
TNetwork == [isError |-> TRUE, message |-> <<"Failed", "to", "fetch">>, src |-> "remote"]
TAuth ==
    [isError |-> TRUE,
     message |-> <<"API", "key", "not", "valid", ".", "Please", "pass", "a",
                   "valid", "API", "key", ".">>,
     src |-> "remote"]
TNotJson ==
    [isError |-> TRUE,
     message |-> <<"Unexpected", "token", "<", "is", "not", "valid", "JSON">>,
     src |-> "remote"]
TNonError == [isError |-> FALSE, message |-> <<"timeout">>, src |-> "remote"]
TransportFailures == {TNetwork, TAuth, TNotJson, TNonError}

\* ------------------------------------------------- one attempt of the loop
\* What the remote capability hands back for one request: a response whose
\* text is absent ("notext"), a response with a text, or a failure.
RespText(txt) == [kind |-> "text", text |-> txt, error |-> NoErr]
RespNoText == [kind |-> "notext", text |-> <<>>, error |-> NoErr]
RespFail(e) == [kind |-> "fail", text |-> <<>>, error |-> e]

TextVal(txt) == [t |-> "text", lit |-> "", items |-> txt]

Returned(v) == [kind |-> "return", val |-> v, err |-> NoErr, fail |-> "none"]
Threw(e, k) == [kind |-> "throw", val |-> NoVal, err |-> e, fail |-> k]
Pending == [kind |-> "none", val |-> NoVal, err |-> NoErr, fail |-> "none"]

\* The decoding branch: strip the fences, trim, parse.
DecodeStructured(txt) ==
    LET cleanedJsonString == Trim(StripFences(txt))
        parsed == JsonParse(cleanedJsonString)
    IN  IF cleanedJsonString = <<>>
        THEN Threw(Err(MsgEmptyJson), "EmptyStructuredResponse")
        ELSE IF parsed.ok THEN Returned(parsed.val)
        ELSE Threw(Err(MsgBadJson), "MalformedStructuredResponse")

\* The body of the try block for one response: what the attempt returns, or
\* the error the catch block receives.  fail names the failure kind; a
\* failure of the remote capability is "AuthRejection" when it is its
\* rejection of the key and "Transport" otherwise.
AttemptOutcomeNoBlankTest(resp, structured) ==
    IF resp.kind = "fail"
    THEN Threw(resp.error, IF resp.error = TAuth THEN "AuthRejection" ELSE "Transport")
    ELSE IF resp.kind = "notext"
         THEN Threw(Err(MsgEmptyResponse), "EmptyResponse")
    ELSE IF structured THEN DecodeStructured(resp.text)
    ELSE Returned(TextVal(resp.text))

AttemptOutcome(resp, structured) ==
    IF resp.kind = "fail"
    THEN Threw(resp.error, IF resp.error = TAuth THEN "AuthRejection" ELSE "Transport")
    ELSE IF resp.kind = "notext" \/ resp.text = <<>> \/ Trim(resp.text) = <<>>
         THEN Threw(Err(MsgEmptyResponse), "EmptyResponse")
    ELSE IF structured THEN DecodeStructured(resp.text)
    ELSE Returned(TextVal(resp.text))

\* The error thrown when attempts reaches 0, from the error of the last
\* attempt: the string tests of the catch block, in each variant.
ExhaustionErrorNoJson(v, error) ==
    IF v = "svc"
    THEN IF error.isError
            /\ (\/ Includes(error.message, PatGeminiApi)
                \/ Includes(error.message, PatEmptyResponse)
                \/ error.message = MsgKeyMissing)
         THEN error
         ELSE Err(MsgExhausted)
    ELSE IF error.isError
            /\ (\/ Includes(error.message, PatKeyNotValid)
                \/ Includes(error.message, MsgKeyMissing))
         THEN Err(MsgKeyMissing)
         ELSE IF error.isError
                 /\ (\/ Includes(error.message, PatGeminiApi)
                     \/ Includes(error.message, PatEmptyResponse))
         THEN error
         ELSE Err(MsgExhausted)

ExhaustionError(v, error) ==
    IF v = "svc"
    THEN IF error.isError
            /\ (\/ Includes(error.message, PatGeminiApi)
                \/ Includes(error.message, PatEmptyResponse)
                \/ Includes(error.message, PatJson)
                \/ error.message = MsgKeyMissing)
         THEN error
         ELSE Err(MsgExhausted)
    ELSE IF error.isError
            /\ (\/ Includes(error.message, PatKeyNotValid)
                \/ Includes(error.message, MsgKeyMissing))
         THEN Err(MsgKeyMissing)
         ELSE IF error.isError
                 /\ (\/ Includes(error.message, PatGeminiApi)
                     \/ Includes(error.message, PatEmptyResponse)
                     \/ Includes(error.message, PatJson))
         THEN error
         ELSE Err(MsgExhausted)

\* ------------------------------------------------------ domain operations
FreeTextOps ==
    {"translateToEnglish", "translateToArabic", "generateBookDescription",
     "generateVideoDescription", "extractBookTitle", "generateScriptFromInfo",
     "designArticleFromContent"}
StructuredOps ==
    {"categorizeContent", "createQuiz", "analyzeSentiment", "extractKeywords",
     "generateContentSuggestions", "rateContent"}
Ops == FreeTextOps \cup StructuredOps \cup {"analyzeTextContent", "summarizeContent"}

\* The messages the operations throw themselves.
MsgQuiz == <<"fashal", "alnamudhaj", "fi", "insha", "ikhtibar", "bialtansiq", "alsahih", ".">>
MsgSentiment == <<"fashal", "alnamudhaj", "fi", "tahlil", "almashair", "bialtansiq", "alsahih", ".">>
MsgSentimentEmpty == <<"la", "yujad", "muhtawa", "litahlil", "almashair", ".">>
MsgKeywords == <<"fashal", "alnamudhaj", "fi", "istikhraj", "alkalimat", "alraisia", "bialtansiq", "alsahih", ".">>
MsgSuggestions == <<"fashal", "alnamudhaj", "fi", "insha", "iqtirahat", "bialtansiq", "alsahih", ".">>
MsgRatingFormat ==
    <<"fashal", "alnamudhaj", "fi", "taqyim", "almuhtawa", "bialtansiq", "alsahih", ".">>
MsgRating == <<"hadath", "khata", "athna", "insha", "taqyim", "almuhtawa", ".">>
MsgStream == <<"fashal", "alittisal", "bi", "Gemini", "API", "athna", "altalkhis", ".">>
MsgStreamPrefix == <<"fashal", "alittisal", "bi", "Gemini", "API", "athna", "altalkhis", ":">>

RateLits == {"oRate7", "oRate3", "oRate0", "oRateH"}

\* typeof value.field, for the fields the operations test.
FieldType(v, f) ==
    IF v.t # "object" THEN "undefined"
    ELSE IF v.lit = "oSent" /\ f \in {"sentiment", "explanation"} THEN "string"
    ELSE IF v.lit \in RateLits /\ f = "rating" THEN "number"
    ELSE IF v.lit \in RateLits /\ f = "review" THEN "string"
    ELSE IF v.lit \in {"oQuiz4", "oQuiz3", "oQuizH"} /\ f = "question" THEN "string"
    ELSE IF v.lit \in {"oQuiz4", "oQuiz3", "oQuizH"} /\ f = "options" THEN "array"
    ELSE IF v.lit \in {"oQuiz4", "oQuiz3", "oQuizH"} /\ f = "correctAnswerIndex" THEN "number"
    ELSE "undefined"

\* q.correctAnswerIndex of a quiz literal, in half units.
AnswerIndexHalves(v) == IF v.lit = "oQuizH" THEN 5 ELSE 2

\* q.options.length of a quiz literal.
OptionsLength(v) == IF v.lit = "oQuiz3" THEN 3 ELSE 4

\* A number in half units (2.5 is 5), so that a non-integer stays exact.
Halves(lit) ==
    IF lit = "n0" THEN 0 ELSE IF lit = "n3" THEN 6 ELSE IF lit = "n7" THEN 14
    ELSE IF lit = "n2h" THEN 5 ELSE IF lit = "oRate7" THEN 14
    ELSE IF lit = "oRate3" THEN 6 ELSE IF lit = "oRate0" THEN 0
    ELSE IF lit = "oRateH" THEN 5 ELSE 2

\* JavaScript truthiness of a decoded value (0 is falsy; strings here are
\* non-empty; arrays and objects are truthy).
Truthy(v) == ~(v.t = "undefined" \/ (v.t = "number" /\ Halves(v.lit) = 0))

\* Array.isArray(result) && result.every(item => typeof item === 'string')
IsStringArray(v) ==
    v.t = "array" /\ \A i \in 1..Len(v.items) : v.items[i].t = "string"

\* The test of createQuiz.
IsQuiz(v) ==
    /\ v.t = "array"
    /\ \A i \in 1..Len(v.items) :
          LET q == v.items[i] IN
          /\ FieldType(q, "question") = "string"
          /\ FieldType(q, "options") = "array"
          /\ OptionsLength(q) = 4
          /\ FieldType(q, "correctAnswerIndex") = "number"

\* The test of analyzeSentiment.
IsSentiment(v) ==
    Truthy(v) /\ FieldType(v, "sentiment") = "string"
              /\ FieldType(v, "explanation") = "string"

\* The test of rateContent.
IsRating(v) ==
    Truthy(v) /\ FieldType(v, "rating") = "number" /\ FieldType(v, "review") = "string"

Max(a, b) == IF a >= b THEN a ELSE b
Min(a, b) == IF a <= b THEN a ELSE b

\* Math.max(1, Math.min(5, result.rating)), in half units.
ClampRating(h) == Max(2, Min(10, h))

\* The text rateContent builds: items holds the number of filled marks, the
\* number of empty marks (String.repeat truncates its count) and the clamped
\* rating in half units.
RatingText(v) ==
    LET rating == ClampRating(Halves(v.lit)) IN
    [t |-> "rating", lit |-> v.lit,
     items |-> <<rating \div 2, (10 - rating) \div 2, rating>>]

\* The value an operation returns for an empty input without calling the
\* model: a fixed text (lit names the operation) or an empty list.
DefaultText(op) == [t |-> "default", lit |-> op, items |-> <<>>]
EmptyList == ArrVal(<<>>)

\* The try block of rateContent, given the outcome r of its call.
RateContentBody(r) ==
    IF r.kind = "throw" THEN r
    ELSE IF IsRating(r.val) THEN Returned(RatingText(r.val))
    ELSE Threw(Err(MsgRatingFormat), "Domain")

\* What an operation with one callGeminiWithRetry call makes of that call's
\* outcome r.  categorizeContent and rateContent wrap the call and their own
\* test in a try block: the first returns the empty list from its catch, the
\* second throws its own message from it (also for the error its own test
\* threw).
DomainResultCategoriesThrow(op, r) ==
    IF op \in FreeTextOps THEN r
    ELSE IF op = "categorizeContent"
         THEN IF r.kind = "return" /\ IsStringArray(r.val) THEN Returned(r.val)
              ELSE IF r.kind = "throw" THEN Returned(EmptyList)
              ELSE Threw(Err(MsgBadJson), "Domain")
    ELSE IF op = "rateContent"
         THEN IF RateContentBody(r).kind = "return" THEN RateContentBody(r)
              ELSE Threw(Err(MsgRating), RateContentBody(r).fail)
    ELSE IF r.kind = "throw" THEN r
    ELSE IF op = "createQuiz"
         THEN IF IsQuiz(r.val) THEN r ELSE Threw(Err(MsgQuiz), "Domain")
    ELSE IF op = "analyzeSentiment"
         THEN IF IsSentiment(r.val) THEN r ELSE Threw(Err(MsgSentiment), "Domain")
    ELSE IF op = "extractKeywords"
         THEN IF IsStringArray(r.val) THEN r ELSE Threw(Err(MsgKeywords), "Domain")
    ELSE IF IsStringArray(r.val) THEN r ELSE Threw(Err(MsgSuggestions), "Domain")

DomainResult(op, r) ==
    IF op \in FreeTextOps THEN r
    ELSE IF op = "categorizeContent"
         THEN IF r.kind = "return" /\ IsStringArray(r.val) THEN Returned(r.val)
              ELSE Returned(EmptyList)
    ELSE IF op = "rateContent"
         THEN IF RateContentBody(r).kind = "return" THEN RateContentBody(r)
              ELSE Threw(Err(MsgRating), RateContentBody(r).fail)
    ELSE IF r.kind = "throw" THEN r
    ELSE IF op = "createQuiz"
         THEN IF IsQuiz(r.val) THEN r ELSE Threw(Err(MsgQuiz), "Domain")
    ELSE IF op = "analyzeSentiment"
         THEN IF IsSentiment(r.val) THEN r ELSE Threw(Err(MsgSentiment), "Domain")
    ELSE IF op = "extractKeywords"
         THEN IF IsStringArray(r.val) THEN r ELSE Threw(Err(MsgKeywords), "Domain")
    ELSE IF IsStringArray(r.val) THEN r ELSE Threw(Err(MsgSuggestions), "Domain")

\* ------------------------------------------------------------------- state
VARIABLES
    variant,   \* which service file runs: "svc" or "p0"
    envKey,    \* process.env.API_KEY ("" when absent or empty)
    lsOk,      \* whether localStorage can be accessed (FALSE: every access throws)
    lsKey,     \* localStorage item gemini_api_key ("" when absent or empty)
    ai,        \* the module variable ai: 0 is null, n > 0 the n-th client made
    handles,   \* number of clients constructed successfully so far
    io,        \* how often getAiInstance read each source and called the constructor
    task,      \* per caller task: the operation it called and its outcome
    lane,      \* per task, its callGeminiWithRetry frames (lane 2: categorizeContent
               \* inside analyzeTextContent) or its stream
    dec        \* the decoding specification's input and results

vars == <<variant, envKey, lsOk, lsKey, ai, handles, io, task, lane, dec>>

\* Number of caller tasks.
NTasks == 2
Tasks == 1..NTasks
Lanes == {1, 2}
Variants == {"svc", "p0"}
Keys == {"", "good", "bad"}

\* new GoogleGenAI({ apiKey }) throws for a key it rejects.
CtorAccepts(k) == k = "good"

\* ----------------------------------------------------------- getAiInstance
\* g is the state getAiInstance reads and writes:
\*   [ai, ls, handles, envReads, lsReads, ctorCalls].
\* The result is [ok, handle, err, g]: the handle returned or the error thrown,
\* and the state it leaves.
GetAiInstanceNoCache(g) ==
    LET fromEnv == IF variant = "svc" THEN envKey ELSE ""
        readLs == fromEnv = ""
        apiKey == IF fromEnv # "" THEN fromEnv
                  ELSE IF lsOk THEN g.ls ELSE ""
        g1 == [g EXCEPT !.envReads = @ + (IF variant = "svc" THEN 1 ELSE 0),
                        !.lsReads = @ + (IF readLs THEN 1 ELSE 0)]
    IN  IF apiKey = ""
        THEN [ok |-> FALSE, handle |-> 0, err |-> Err(MsgKeyMissing), g |-> g1]
        ELSE IF CtorAccepts(apiKey)
        THEN [ok |-> TRUE, handle |-> g.handles + 1, err |-> NoErr,
              g |-> [g1 EXCEPT !.ai = g.handles + 1, !.handles = @ + 1,
                               !.ctorCalls = @ + 1]]
        ELSE [ok |-> FALSE, handle |-> 0, err |-> Err(MsgInitFailed),
              g |-> [g1 EXCEPT !.ctorCalls = @ + 1,
                               !.ls = IF variant = "p0" THEN "" ELSE @]]

GetAiInstanceMemoizingFailure(g) ==
    IF g.ai # 0
    THEN [ok |-> g.ai > 0, handle |-> g.ai,
          err |-> IF g.ai > 0 THEN NoErr ELSE Err(MsgKeyMissing), g |-> g]
    ELSE IF GetAiInstanceNoCache(g).err = Err(MsgKeyMissing)
         THEN [GetAiInstanceNoCache(g) EXCEPT !.g.ai = -1]
         ELSE GetAiInstanceNoCache(g)

GetAiInstance(g) ==
    IF g.ai # 0
    THEN [ok |-> TRUE, handle |-> g.ai, err |-> NoErr, g |-> g]
    ELSE GetAiInstanceNoCache(g)

\* The state getAiInstance works on, taken from the variables.
Globals ==
    [ai |-> ai, ls |-> lsKey, handles |-> handles, envReads |-> io.envReads,
     lsReads |-> io.lsReads, ctorCalls |-> io.ctorCalls]

\* ----------------------------------------------------- callGeminiWithRetry
\* What a frame did so far: requests issued and delays started, in order.
ReqEvent == [e |-> "request", ms |-> 0]
DelayEvent == [e |-> "delay", ms |-> RetryDelayMs]

\* A frame: pc is "idle", "awaiting" (a request is outstanding), "delay" (the
\* timer runs), "returned" or "thrown"; for a stream "opening", "streaming".
\* arrived holds the chunk texts the remote stream delivered so far, yielded
\* the fragments the generator handed to its consumer.
IdleLane ==
    [pc |-> "idle", structured |-> FALSE, aiInstance |-> 0, attempts |-> 0,
     trace |-> <<>>, res |-> Pending, yielded |-> <<>>, chunks |-> 0,
     arrived |-> <<>>]

\* The frame after the synchronous start of callGeminiWithRetry: got is what
\* getAiInstance gave.  A failure of getAiInstance leaves the function before
\* attempts is set; otherwise the first request is issued.
StartInvokeRetrying(got, structured) ==
    IF got.ok
    THEN [IdleLane EXCEPT !.pc = "awaiting", !.structured = structured,
                          !.aiInstance = got.handle, !.attempts = RetryAttempts,
                          !.trace = <<ReqEvent>>]
    ELSE [IdleLane EXCEPT !.pc = "delay", !.structured = structured,
                          !.attempts = RetryAttempts - 1,
                          !.trace = <<DelayEvent>>]

StartInvoke(got, structured) ==
    IF got.ok
    THEN [IdleLane EXCEPT !.pc = "awaiting", !.structured = structured,
                          !.aiInstance = got.handle, !.attempts = RetryAttempts,
                          !.trace = <<ReqEvent>>]
    ELSE [IdleLane EXCEPT !.pc = "thrown", !.structured = structured,
                          !.res = Threw(got.err, "Handle")]

\* The frame after the response resp to its outstanding request: return, or
\* the catch block (attempts--, throw at 0, else start the delay).
OnResponseOffByOne(ln, resp) ==
    LET o == AttemptOutcome(resp, ln.structured) IN
    IF o.kind = "return" THEN [ln EXCEPT !.pc = "returned", !.res = o]
    ELSE IF ln.attempts - 1 <= 1
         THEN [ln EXCEPT !.pc = "thrown", !.attempts = 0,
                         !.res = Threw(ExhaustionError(variant, o.err), o.fail)]
    ELSE [ln EXCEPT !.pc = "delay", !.attempts = @ - 1,
                    !.trace = Append(@, DelayEvent)]

OnResponseGoesOn(ln, resp) ==
    LET o == AttemptOutcome(resp, ln.structured) IN
    IF o.kind = "return"
    THEN [ln EXCEPT !.pc = "returned", !.res = o,
                    !.trace = @ \o <<DelayEvent, ReqEvent>>]
    ELSE IF ln.attempts - 1 = 0
         THEN [ln EXCEPT !.pc = "thrown", !.attempts = 0,
                         !.res = Threw(ExhaustionError(variant, o.err), o.fail)]
    ELSE [ln EXCEPT !.pc = "delay", !.attempts = @ - 1,
                    !.trace = Append(@, DelayEvent)]

OnResponseKeepsFirst(v, ln, resp) ==
    LET o == AttemptOutcome(resp, ln.structured)
        first == IF ln.res.kind = "throw" THEN ln.res.err ELSE o.err
    IN
    IF o.kind = "return" THEN [ln EXCEPT !.pc = "returned", !.res = o]
    ELSE IF ln.attempts - 1 = 0
         THEN [ln EXCEPT !.pc = "thrown", !.attempts = 0,
                         !.res = Threw(ExhaustionError(v, first), o.fail)]
    ELSE [ln EXCEPT !.pc = "delay", !.attempts = @ - 1,
                    !.trace = Append(@, DelayEvent),
                    !.res = Threw(first, o.fail)]

OnResponseAuthStops(v, ln, resp) ==
    LET o == AttemptOutcome(resp, ln.structured) IN
    IF o.kind = "return" THEN [ln EXCEPT !.pc = "returned", !.res = o]
    ELSE IF ln.attempts - 1 = 0 \/ (v = "p0" /\ o.fail = "AuthRejection")
         THEN [ln EXCEPT !.pc = "thrown", !.attempts = 0,
                         !.res = Threw(ExhaustionError(v, o.err), o.fail)]
    ELSE [ln EXCEPT !.pc = "delay", !.attempts = @ - 1,
                    !.trace = Append(@, DelayEvent)]

OnResponseIn(v, ln, resp) ==
    LET o == AttemptOutcome(resp, ln.structured) IN
    IF o.kind = "return" THEN [ln EXCEPT !.pc = "returned", !.res = o]
    ELSE IF ln.attempts - 1 = 0
         THEN [ln EXCEPT !.pc = "thrown", !.attempts = 0,
                         !.res = Threw(ExhaustionError(v, o.err), o.fail)]
    ELSE [ln EXCEPT !.pc = "delay", !.attempts = @ - 1,
                    !.trace = Append(@, DelayEvent)]

\* The same in the variant that runs.
OnResponse(ln, resp) == OnResponseIn(variant, ln, resp)

\* The timer fired: the loop issues the next request.
OnDelayElapsedStalls(ln) == [ln EXCEPT !.pc = "delay"]

OnDelayElapsed(ln) == [ln EXCEPT !.pc = "awaiting", !.trace = Append(@, ReqEvent)]

Finished(ln) == ln.pc \in {"returned", "thrown"}

\* -------------------------------------------------------- summarizeContent
MsgNothingToSummarize == <<"la", "yujad", "muhtawa", "litalkhisih", ".">>
StreamVal(fragments) == [t |-> "stream", lit |-> "", items |-> fragments]

\* The error the catch block of summarizeContent throws for error.
StreamError(v, error) ==
    IF v = "svc"
    THEN IF error.isError
         THEN IF Includes(error.message, PatGeminiApi) \/ error.message = MsgKeyMissing
              THEN error
              ELSE Err(MsgStreamPrefix \o error.message)
         ELSE Err(MsgStream)
    ELSE IF error.isError /\ Includes(error.message, PatKeyNotValid)
         THEN Err(MsgKeyMissing)
         ELSE Err(MsgStream)

\* The kind of a failure of the remote capability: its rejection of the key,
\* or any other failure.
FailKind(e) == IF e = TAuth THEN "AuthRejection" ELSE "Transport"

\* The texts a chunk of the stream can carry (the empty text is skipped).
ChunkTexts == {<<>>, <<"a">>, <<"b">>}

\* ------------------------------------------------------------- the callers
IdleTask == [op |-> "none", empty |-> FALSE, pc |-> "idle", out |-> Pending]
Running(op, empty) == [op |-> op, empty |-> empty, pc |-> "running", out |-> Pending]
Done(op, empty, out) == [op |-> op, empty |-> empty, pc |-> "done", out |-> out]

\* The operations of the specification with several tasks: the first task
\* calls the combined analysis or an operation with free text or with
\* structured output; every other task calls an operation with free text.
PrimaryOps == {"analyzeTextContent", "translateToEnglish", "extractKeywords"}
SecondaryOps == {"translateToEnglish"}

AnalysisVal(analysis, categories) ==
    [t |-> "analysis", lit |-> "", items |-> <<analysis, categories>>]

\* What an operation gives for an empty input, before any call.
EmptyInputResult(op) ==
    IF op = "analyzeSentiment" THEN Threw(Err(MsgSentimentEmpty), "EmptyInput")
    ELSE IF op \in {"categorizeContent", "createQuiz", "extractKeywords",
                    "generateContentSuggestions"}
         THEN Returned(EmptyList)
    ELSE IF op = "analyzeTextContent"
         THEN Returned(AnalysisVal(DefaultText(op), EmptyList))
    ELSE Returned(DefaultText(op))

\* generateScriptFromInfo has no test of its inputs; summarizeContent calls
\* getAiInstance before its test.
ReturnsEarly(op, empty) ==
    empty /\ op \notin {"generateScriptFromInfo", "summarizeContent"}

\* The frames of an operation right after the call, run up to its first
\* await, from the state g: [g, l1, l2].
CallFramesOneByOne(op, empty, g) ==
    IF ReturnsEarly(op, empty) THEN [g |-> g, l1 |-> IdleLane, l2 |-> IdleLane]
    ELSE IF op = "summarizeContent"
    THEN LET got == GetAiInstance(g) IN
         [g |-> got.g, l2 |-> IdleLane,
          l1 |-> IF ~got.ok
                 THEN [IdleLane EXCEPT !.pc = "thrown", !.res = Threw(got.err, "Handle")]
                 ELSE IF empty
                 THEN [IdleLane EXCEPT !.pc = "returned", !.aiInstance = got.handle,
                                       !.yielded = <<MsgNothingToSummarize>>,
                                       !.res = Returned(StreamVal(<<MsgNothingToSummarize>>))]
                 ELSE [IdleLane EXCEPT !.pc = "opening", !.aiInstance = got.handle,
                                       !.trace = <<ReqEvent>>]]
    ELSE IF op = "analyzeTextContent"
    THEN LET got1 == GetAiInstance(g)
             got2 == GetAiInstance(got1.g)
         IN  [g |-> got1.g, l1 |-> StartInvoke(got1, FALSE), l2 |-> IdleLane]
    ELSE LET got == GetAiInstance(g) IN
         [g |-> got.g, l1 |-> StartInvoke(got, op \in StructuredOps), l2 |-> IdleLane]

CallFrames(op, empty, g) ==
    IF ReturnsEarly(op, empty) THEN [g |-> g, l1 |-> IdleLane, l2 |-> IdleLane]
    ELSE IF op = "summarizeContent"
    THEN LET got == GetAiInstance(g) IN
         [g |-> got.g, l2 |-> IdleLane,
          l1 |-> IF ~got.ok
                 THEN [IdleLane EXCEPT !.pc = "thrown", !.res = Threw(got.err, "Handle")]
                 ELSE IF empty
                 THEN [IdleLane EXCEPT !.pc = "returned", !.aiInstance = got.handle,
                                       !.yielded = <<MsgNothingToSummarize>>,
                                       !.res = Returned(StreamVal(<<MsgNothingToSummarize>>))]
                 ELSE [IdleLane EXCEPT !.pc = "opening", !.aiInstance = got.handle,
                                       !.trace = <<ReqEvent>>]]
    ELSE IF op = "analyzeTextContent"
    THEN LET got1 == GetAiInstance(g)
             got2 == GetAiInstance(got1.g)
         IN  [g |-> got2.g, l1 |-> StartInvoke(got1, FALSE),
              l2 |-> StartInvoke(got2, TRUE)]
    ELSE LET got == GetAiInstance(g) IN
         [g |-> got.g, l1 |-> StartInvoke(got, op \in StructuredOps), l2 |-> IdleLane]

\* The task of an operation whose frames are l1 and l2: settled as soon as
\* its result or error is known.  Promise.all rejects with the first
\* rejection, and categorizeContent never rejects.
TaskStateCategoriesFail(op, empty, l1, l2) ==
    IF ReturnsEarly(op, empty) THEN Done(op, empty, EmptyInputResult(op))
    ELSE IF op = "summarizeContent"
         THEN IF Finished(l1) THEN Done(op, empty, l1.res) ELSE Running(op, empty)
    ELSE IF op = "analyzeTextContent"
         THEN IF l1.pc = "thrown" THEN Done(op, empty, l1.res)
              ELSE IF l2.pc = "thrown" THEN Done(op, empty, l2.res)
              ELSE IF l1.pc = "returned" /\ Finished(l2)
              THEN Done(op, empty,
                        Returned(AnalysisVal(l1.res.val,
                                 DomainResult("categorizeContent", l2.res).val)))
              ELSE Running(op, empty)
    ELSE IF Finished(l1) THEN Done(op, empty, DomainResult(op, l1.res))
    ELSE Running(op, empty)

TaskState(op, empty, l1, l2) ==
    IF ReturnsEarly(op, empty) THEN Done(op, empty, EmptyInputResult(op))
    ELSE IF op = "summarizeContent"
         THEN IF Finished(l1) THEN Done(op, empty, l1.res) ELSE Running(op, empty)
    ELSE IF op = "analyzeTextContent"
         THEN IF l1.pc = "thrown" THEN Done(op, empty, l1.res)
              ELSE IF l1.pc = "returned" /\ Finished(l2)
              THEN Done(op, empty,
                        Returned(AnalysisVal(l1.res.val,
                                 DomainResult("categorizeContent", l2.res).val)))
              ELSE Running(op, empty)
    ELSE IF Finished(l1) THEN Done(op, empty, DomainResult(op, l1.res))
    ELSE Running(op, empty)

\* The structured texts the remote service answers an operation with.
StructuredTexts(op) ==
    {<<WS>>, <<BT, "json", WS, BT>>, <<"[", "a">>}
    \cup (IF op = "createQuiz"
          THEN {<<"[", "oQuiz4", "]">>, <<"[", "oQuiz3", "]">>, <<"[", "oQuizH", "]">>}
          ELSE IF op = "analyzeSentiment" THEN {<<"oSent">>, <<"oEmpty">>}
          ELSE IF op = "rateContent"
          THEN {<<"oRate7">>, <<"oRate3">>, <<"oRate0">>, <<"oRateH">>, <<"oSent">>}
          ELSE {<<BT, "json", WS, "[", "a", ",", "a", "]", WS, BT>>, <<"[", "n3", "]">>})
FreeTexts == {<<>>, <<WS>>, <<"a", WS, "a">>}

\* What the remote capability can hand back to frame l of operation op.
ResponsesFor(op, l) ==
    {RespNoText} \cup {RespFail(e) : e \in TransportFailures}
    \cup {RespText(x) :
            x \in IF op = "analyzeTextContent"
                  THEN (IF l = 2 THEN StructuredTexts("categorizeContent") ELSE FreeTexts)
                  ELSE IF op \in StructuredOps THEN StructuredTexts(op)
                  ELSE FreeTexts}

\* ------------------------------------------------- decoding specification
\* The fence forms put around a payload: the opening fence with the json tag
\* (with and without a line break after it) and without a tag; the closing
\* fence with and without line breaks around it.
FenceOpens == {<<BT, "json", WS>>, <<BT, "json">>, <<BT, WS>>}
FenceCloses == {<<WS, BT>>, <<BT>>, <<WS, BT, WS>>}
Payloads == UNION {[1..n -> TextTokens] : n \in 0..MaxPayload}

DecIdle ==
    [stage |-> "off", payload |-> <<>>, open |-> <<>>, close |-> <<>>,
     wrapped |-> Pending, plain |-> Pending]

\* ------------------------------------------------------------------ actions
SetGlobals(g) ==
    /\ ai' = g.ai
    /\ lsKey' = g.ls
    /\ handles' = g.handles
    /\ io' = [envReads |-> g.envReads, lsReads |-> g.lsReads, ctorCalls |-> g.ctorCalls]

\* A caller calls operation op (empty: with an empty input); the call runs
\* up to its first await.
Call(t, op, empty) ==
    /\ task[t].pc = "idle"
    /\ LET f == CallFrames(op, empty, Globals) IN
       /\ SetGlobals(f.g)
       /\ lane' = [lane EXCEPT ![t] = [l \in Lanes |-> IF l = 1 THEN f.l1 ELSE f.l2]]
       /\ task' = [task EXCEPT ![t] = TaskState(op, empty, f.l1, f.l2)]
    /\ UNCHANGED <<variant, envKey, lsOk, dec>>

\* A settled task stays settled; a running one settles when its frames allow.
Resettle(t, lanesOfT) ==
    IF task[t].pc = "done" THEN task[t]
    ELSE TaskState(task[t].op, task[t].empty, lanesOfT[1], lanesOfT[2])

UpdateLaneSharedBudget(t, l, ln) ==
    LET lanesOfT ==
            [k \in Lanes |->
                IF k = l THEN ln
                ELSE IF lane[t][k].pc \in {"awaiting", "delay"}
                     THEN [lane[t][k] EXCEPT !.attempts = ln.attempts]
                     ELSE lane[t][k]]
    IN
    /\ lane' = [lane EXCEPT ![t] = lanesOfT]
    /\ task' = [task EXCEPT ![t] = Resettle(t, lanesOfT)]
    /\ UNCHANGED <<variant, envKey, lsOk, lsKey, ai, handles, io, dec>>

UpdateLaneResetting(t, l, ln) ==
    LET lanesOfT == [lane[t] EXCEPT ![l] = ln] IN
    /\ lane' = [lane EXCEPT ![t] = lanesOfT]
    /\ task' = [task EXCEPT ![t] = Resettle(t, lanesOfT)]
    /\ ai' = IF ln.pc = "thrown" /\ ln.res.err = Err(MsgKeyMissing) THEN 0 ELSE ai
    /\ UNCHANGED <<variant, envKey, lsOk, lsKey, handles, io, dec>>

UpdateLane(t, l, ln) ==
    LET lanesOfT == [lane[t] EXCEPT ![l] = ln] IN
    /\ lane' = [lane EXCEPT ![t] = lanesOfT]
    /\ task' = [task EXCEPT ![t] = Resettle(t, lanesOfT)]
    /\ UNCHANGED <<variant, envKey, lsOk, lsKey, ai, handles, io, dec>>

\* The outstanding request of a frame completes with resp.
Respond(t, l, resp) ==
    /\ lane[t][l].pc = "awaiting"
    /\ resp \in ResponsesFor(task[t].op, l)
    /\ UpdateLane(t, l, OnResponse(lane[t][l], resp))

\* The retry timer of a frame fires.
DelayElapsed(t, l) ==
    /\ lane[t][l].pc = "delay"
    /\ UpdateLane(t, l, OnDelayElapsed(lane[t][l]))

\* generateContentStream resolves with the stream.
StreamOpened(t) ==
    /\ lane[t][1].pc = "opening"
    /\ UpdateLane(t, 1, [lane[t][1] EXCEPT !.pc = "streaming"])

\* The stream delivers a chunk; its text is yielded unless empty.
StreamChunkYieldsAll(t, c) ==
    /\ lane[t][1].pc = "streaming"
    /\ lane[t][1].chunks < MaxChunks
    /\ UpdateLane(t, 1, [lane[t][1] EXCEPT
                            !.chunks = @ + 1,
                            !.arrived = Append(@, c),
                            !.yielded = Append(@, c)])

StreamChunk(t, c) ==
    /\ lane[t][1].pc = "streaming"
    /\ lane[t][1].chunks < MaxChunks
    /\ UpdateLane(t, 1, [lane[t][1] EXCEPT
                            !.chunks = @ + 1,
                            !.arrived = Append(@, c),
                            !.yielded = IF c = <<>> THEN @ ELSE Append(@, c)])

\* The stream ends: the generator returns.
StreamEnd(t) ==
    /\ lane[t][1].pc = "streaming"
    /\ UpdateLane(t, 1, [lane[t][1] EXCEPT
                            !.pc = "returned",
                            !.res = Returned(StreamVal(lane[t][1].yielded))])

\* Opening the stream, or reading it, fails with e: the catch block throws,
\* and the generator is finished.
StreamFailRetrying(t, e) ==
    /\ lane[t][1].pc \in {"opening", "streaming"}
    /\ UpdateLane(t, 1,
          IF Len(lane[t][1].trace) < 2 * RetryAttempts - 1
          THEN [lane[t][1] EXCEPT !.pc = "opening",
                                  !.trace = @ \o <<DelayEvent, ReqEvent>>]
          ELSE [lane[t][1] EXCEPT
                   !.pc = "thrown",
                   !.res = Threw(StreamError(variant, e), FailKind(e))])

StreamFail(t, e) ==
    /\ lane[t][1].pc \in {"opening", "streaming"}
    /\ UpdateLane(t, 1, [lane[t][1] EXCEPT
                            !.pc = "thrown",
                            !.res = Threw(StreamError(variant, e), FailKind(e))])

\* The user interface stores a key in localStorage, or removes it.
SetKey(k) ==
    /\ lsOk
    /\ k # lsKey
    /\ lsKey' = k
    /\ UNCHANGED <<variant, envKey, lsOk, ai, handles, io, task, lane, dec>>

Init ==
    /\ variant \in Variants
    /\ envKey \in Keys
    /\ lsOk \in BOOLEAN
    /\ lsKey \in (IF lsOk THEN Keys ELSE {""})
    /\ ai = 0
    /\ handles = 0
    /\ io = [envReads |-> 0, lsReads |-> 0, ctorCalls |-> 0]
    /\ task = [t \in Tasks |-> IdleTask]
    /\ lane = [t \in Tasks |-> [l \in Lanes |-> IdleLane]]
    /\ dec = DecIdle

\* Several tasks, each calling one operation, their steps interleaved.
Next ==
    \/ \E t \in Tasks, empty \in BOOLEAN :
          \E op \in (IF t = 1 THEN PrimaryOps ELSE SecondaryOps) : Call(t, op, empty)
    \/ \E t \in Tasks, l \in Lanes :
          \E resp \in ResponsesFor(task[t].op, l) : Respond(t, l, resp)
    \/ \E t \in Tasks, l \in Lanes : DelayElapsed(t, l)
    \/ \E k \in Keys : SetKey(k)

Spec == Init /\ [][Next]_vars

\* One task, calling any of the exported operations.
NextOps ==
    \/ \E op \in Ops, empty \in BOOLEAN : Call(1, op, empty)
    \/ \E l \in Lanes :
          \E resp \in ResponsesFor(task[1].op, l) : Respond(1, l, resp)
    \/ \E l \in Lanes : DelayElapsed(1, l)
    \/ StreamOpened(1)
    \/ \E c \in ChunkTexts : StreamChunk(1, c)
    \/ StreamEnd(1)
    \/ \E e \in TransportFailures : StreamFail(1, e)
    \/ \E k \in Keys : SetKey(k)

SpecOps == Init /\ [][NextOps]_vars

\* The same where every outstanding request of a frame is answered at some
\* time, with a response or a failure, and every timer fires.
SpecOpsFair ==
    /\ SpecOps
    /\ \A l \in Lanes :
          /\ WF_vars(\E resp \in ResponsesFor(task[1].op, l) : Respond(1, l, resp))
          /\ WF_vars(DelayElapsed(1, l))

\* The decoding specification: a payload and a fence form are drawn, and the
\* structured branch of one attempt is applied to the payload as it is and to
\* the payload inside the fences.
DecodeInit ==
    /\ variant \in Variants
    /\ envKey = ""
    /\ lsOk = TRUE
    /\ lsKey = ""
    /\ ai = 0
    /\ handles = 0
    /\ io = [envReads |-> 0, lsReads |-> 0, ctorCalls |-> 0]
    /\ task = [t \in Tasks |-> IdleTask]
    /\ lane = [t \in Tasks |-> [l \in Lanes |-> IdleLane]]
    /\ \E p \in Payloads, o \in FenceOpens, c \in FenceCloses :
          dec = [DecIdle EXCEPT !.stage = "drawn", !.payload = p, !.open = o, !.close = c]

DecodeBoth ==
    /\ dec.stage = "drawn"
    /\ dec' = [dec EXCEPT
                 !.stage = "decoded",
                 !.wrapped = AttemptOutcome(RespText(dec.open \o dec.payload \o dec.close), TRUE),
                 !.plain = AttemptOutcome(RespText(dec.payload), TRUE)]
    /\ UNCHANGED <<variant, envKey, lsOk, lsKey, ai, handles, io, task, lane>>

DecodeNext == DecodeBoth

SpecDecode == DecodeInit /\ [][DecodeNext]_vars

\* The two variants side by side: frame 1 is callGeminiWithRetry of
\* services/geminiService.ts, frame 2 that of part_000, both called for the
\* same operation with the client that exists, and both handed the same
\* response to each request and the same timer.
PairOps == FreeTextOps \cup StructuredOps
PairVariant(l) == IF l = 1 THEN "svc" ELSE "p0"

PairInit ==
    /\ variant = "svc"
    /\ envKey = ""
    /\ lsOk = TRUE
    /\ lsKey = "good"
    /\ ai = 1
    /\ handles = 1
    /\ io = [envReads |-> 1, lsReads |-> 1, ctorCalls |-> 1]
    /\ dec = DecIdle
    /\ \E op \in PairOps :
          /\ task = [t \in Tasks |-> IF t = 1 THEN Running(op, FALSE) ELSE IdleTask]
          /\ lane = [t \in Tasks |->
                       [l \in Lanes |->
                          IF t = 1
                          THEN StartInvoke(GetAiInstance(Globals), op \in StructuredOps)
                          ELSE IdleLane]]

\* The same response comes to the request of each frame.
PairRespond(resp) ==
    /\ \E l \in Lanes : lane[1][l].pc = "awaiting"
    /\ \A l \in Lanes : lane[1][l].pc # "delay"
    /\ lane' = [lane EXCEPT ![1] =
                   [l \in Lanes |->
                      IF lane[1][l].pc = "awaiting"
                      THEN OnResponseIn(PairVariant(l), lane[1][l], resp)
                      ELSE lane[1][l]]]
    /\ UNCHANGED <<variant, envKey, lsOk, lsKey, ai, handles, io, task, dec>>

\* The timers fire.
PairDelay ==
    /\ \E l \in Lanes : lane[1][l].pc = "delay"
    /\ lane' = [lane EXCEPT ![1] =
                   [l \in Lanes |->
                      IF lane[1][l].pc = "delay"
                      THEN OnDelayElapsed(lane[1][l])
                      ELSE lane[1][l]]]
    /\ UNCHANGED <<variant, envKey, lsOk, lsKey, ai, handles, io, task, dec>>

PairNext ==
    \/ \E resp \in ResponsesFor(task[1].op, 1) : PairRespond(resp)
    \/ PairDelay

SpecPair == PairInit /\ [][PairNext]_vars

\* ================================================================== claims
\* A frame of callGeminiWithRetry (not the stream of summarizeContent).
InvokeFrame(t, l) == lane[t][l].pc # "idle" /\ task[t].op # "summarizeContent"

\* C1: a callGeminiWithRetry call that obtained the handle and throws has
\* issued exactly 3 requests, with one delay of 1000 ms between each failed
\* attempt and the next, and none after the last.
C1_ThreeTriesThenThrow ==
    \A t \in Tasks, l \in Lanes :
        (InvokeFrame(t, l) /\ lane[t][l].pc = "thrown" /\ lane[t][l].aiInstance # 0)
        => /\ lane[t][l].trace =
                <<[e |-> "request", ms |-> 0], [e |-> "delay", ms |-> 1000],
                  [e |-> "request", ms |-> 0], [e |-> "delay", ms |-> 1000],
                  [e |-> "request", ms |-> 0]>>
           /\ lane[t][l].attempts = 0

C1_Witness ==
    \E t \in Tasks, l \in Lanes :
        /\ InvokeFrame(t, l) /\ lane[t][l].pc = "thrown" /\ lane[t][l].aiInstance # 0
        /\ lane[t][l].res.err = Err(MsgExhausted)

\* C2: a callGeminiWithRetry call whose getAiInstance threw has thrown that
\* error (API_KEY_MISSING or the initialization message) at once: no request,
\* no delay, attempts never set; and no frame without a handle does anything
\* else.
C2_HandleFailureNoRetry ==
    \A t \in Tasks, l \in Lanes :
        (InvokeFrame(t, l) /\ lane[t][l].aiInstance = 0)
        => /\ lane[t][l].pc = "thrown"
           /\ lane[t][l].res.fail = "Handle"
           /\ lane[t][l].res.err \in {Err(MsgKeyMissing), Err(MsgInitFailed)}
           /\ lane[t][l].trace = <<>>
           /\ lane[t][l].attempts = 0

C2_Witness ==
    \E t \in Tasks :
        /\ InvokeFrame(t, 1) /\ lane[t][1].aiInstance = 0
        /\ lane[t][1].res.err = Err(MsgInitFailed)

\* A task whose operation was called with a non-empty input and found no
\* credential: its first getAiInstance threw API_KEY_MISSING.
NoCredentialCall(t) ==
    /\ task[t].pc = "done" /\ ~task[t].empty
    /\ lane[t][1].res.fail = "Handle"
    /\ lane[t][1].res.err = Err(MsgKeyMissing)

\* C3: every operation called with a non-empty input while no credential
\* resolves ends with the API_KEY_MISSING error itself reaching the caller.
C3_KeyMissingReachesCaller ==
    \A t \in Tasks :
        NoCredentialCall(t)
        => task[t].out.kind = "throw" /\ task[t].out.err = Err(MsgKeyMissing)

\* C4: once the client exists, no step reads a credential source, calls the
\* constructor or changes the client, and every frame started gets that
\* client, whatever the sources hold.
C4_MemoizedHandle ==
    [][ai # 0 =>
         /\ ai' = ai /\ io' = io /\ handles' = handles
         /\ \A t \in Tasks, l \in Lanes :
               (lane[t][l].pc = "idle" /\ lane'[t][l].pc # "idle")
               => lane'[t][l].aiInstance = ai]_vars

C4_Witness ==
    /\ ai # 0 /\ io.ctorCalls = 1
    /\ lane[1][1].aiInstance = ai /\ lane[2][1].aiInstance = ai
    /\ lsKey # "good" /\ envKey # "good"

\* C5: at most one client is ever constructed successfully, the module
\* variable holds it from then on, and every frame that has a client has
\* that one, under every interleaving of the tasks' steps.
C5_AtMostOneHandle ==
    /\ handles <= 1
    /\ ai = handles
    /\ \A t \in Tasks, l \in Lanes : lane[t][l].aiInstance \in {0, ai}

C5_Witness ==
    /\ task[1].op = "analyzeTextContent"
    /\ \A l \in Lanes : lane[1][l].pc = "awaiting" /\ lane[1][l].aiInstance = 1
    /\ lane[2][1].pc = "awaiting" /\ lane[2][1].aiInstance = 1
    /\ io.ctorCalls = 1

\* C6: a step in which the constructor rejects the resolved key leaves no key
\* in localStorage, so that the next getAiInstance has nothing to retry.
C6_RejectedKeyEvicted ==
    [][(io'.ctorCalls > io.ctorCalls /\ handles' = handles) => lsKey' = ""]_vars

\* C7: a payload decodes inside code fences as it does without them: the same
\* value, or the same failure.
C7_FencedDecodesAsPlain ==
    dec.stage = "decoded" => dec.wrapped = dec.plain

\* A frame of callGeminiWithRetry that threw on exhaustion, the last attempt
\* having failed with kind k.
Exhausted(t, l, k) ==
    /\ InvokeFrame(t, l) /\ lane[t][l].pc = "thrown" /\ lane[t][l].aiInstance # 0
    /\ lane[t][l].res.fail = k

\* C8: on exhaustion after a last attempt that failed with an empty response,
\* an empty structured response or a malformed structured response, the error
\* thrown is the one that attempt threw, not the generic one.
C8_ResponseErrorsKept ==
    \A t \in Tasks, l \in Lanes :
        /\ Exhausted(t, l, "EmptyResponse") => lane[t][l].res.err = Err(MsgEmptyResponse)
        /\ Exhausted(t, l, "EmptyStructuredResponse") => lane[t][l].res.err = Err(MsgEmptyJson)
        /\ Exhausted(t, l, "MalformedStructuredResponse") => lane[t][l].res.err = Err(MsgBadJson)
        /\ (\E k \in {"EmptyResponse", "EmptyStructuredResponse",
                      "MalformedStructuredResponse"} : Exhausted(t, l, k))
           => lane[t][l].res.err # Err(MsgExhausted)

C8_Witness ==
    /\ task[1].op = "analyzeTextContent"
    /\ Exhausted(1, 1, "EmptyResponse")
    /\ Exhausted(1, 2, "MalformedStructuredResponse")

\* C9: on exhaustion after a last attempt that the remote capability rejected
\* for an invalid key, the error thrown is the credential error, not the
\* generic one.
C9_AuthRejectionSpecific ==
    \A t \in Tasks, l \in Lanes :
        Exhausted(t, l, "AuthRejection")
        => /\ lane[t][l].res.err # Err(MsgExhausted)
           /\ lane[t][l].res.err = Err(MsgKeyMissing)

\* C10: on exhaustion after a last attempt that failed in the transport, and
\* not by a rejection of the key, the error thrown is the generic one; the
\* transport's own error never reaches the caller.
C10_TransportErrorsGeneric ==
    \A t \in Tasks, l \in Lanes :
        Exhausted(t, l, "Transport")
        => /\ lane[t][l].res.err = Err(MsgExhausted)
           /\ lane[t][l].res.err.src = "own"

\* The stream of a summarizeContent call with a non-empty input.
StreamFrame(t) ==
    task[t].op = "summarizeContent" /\ ~task[t].empty /\ task[t].pc # "idle"

\* C11: summarizeContent on a non-empty input calls getAiInstance once and
\* issues one streaming request: whatever fails, its frame never holds a
\* second request or a delay, and it starts no other frame.
C11_SingleStreamRequest ==
    \A t \in Tasks :
        StreamFrame(t)
        => /\ lane[t][1].trace =
                 (IF lane[t][1].aiInstance # 0
                  THEN <<[e |-> "request", ms |-> 0]>> ELSE <<>>)
           /\ lane[t][2].pc = "idle"
           /\ io.envReads <= 1 /\ io.lsReads <= 1 /\ io.ctorCalls <= 1

C11_Witness ==
    /\ StreamFrame(1) /\ lane[1][1].pc = "thrown" /\ lane[1][1].aiInstance # 0
    /\ Len(lane[1][1].yielded) >= 1
    /\ lane[1][1].res.fail = "Transport"

\* The errors summarizeContent throws for a failed stream: its own message,
\* alone or followed by the cause.
IsStreamingFailed(e) ==
    /\ e.isError /\ e.src = "own"
    /\ \/ e.message = MsgStream
       \/ /\ Len(e.message) > Len(MsgStreamPrefix)
          /\ SubSeq(e.message, 1, Len(MsgStreamPrefix)) = MsgStreamPrefix

\* C12: a stream that failed after the handle was obtained throws the
\* streaming error, except that a rejection of the key by the remote
\* capability throws API_KEY_MISSING; nothing else is thrown.
C12_StreamErrors ==
    \A t \in Tasks :
        (StreamFrame(t) /\ lane[t][1].pc = "thrown" /\ lane[t][1].aiInstance # 0)
        => /\ lane[t][1].res.fail = "AuthRejection"
                 => lane[t][1].res.err = Err(MsgKeyMissing)
           /\ lane[t][1].res.fail = "Transport"
                 => IsStreamingFailed(lane[t][1].res.err)

\* C13: summarizeContent called with an empty input yields the placeholder
\* fragment and nothing else, and ends, without a request, whatever the
\* credential sources and the module variable ai hold.
C13_EmptyStreamPlaceholder ==
    \A t \in Tasks :
        (task[t].op = "summarizeContent" /\ task[t].empty)
        => /\ task[t].pc = "done"
           /\ task[t].out = Returned(StreamVal(<<MsgNothingToSummarize>>))
           /\ lane[t][1].trace = <<>>

\* C14: an operation called with an empty input has returned a value at
\* once: it throws nothing and starts no callGeminiWithRetry frame.
C14_EmptyInputDefault ==
    \A t \in Tasks :
        (task[t].pc # "idle" /\ task[t].empty /\ task[t].op # "summarizeContent")
        => /\ task[t].pc = "done"
           /\ task[t].out.kind = "return"
           /\ \A l \in Lanes : lane[t][l].pc = "idle"

\* A finished call of operation op whose callGeminiWithRetry call returned.
InvokeReturned(t, op) ==
    /\ task[t].op = op /\ task[t].pc = "done" /\ ~task[t].empty
    /\ lane[t][1].pc = "returned"

\* A decoded quiz item with exactly 4 options and an integer answer index.
QuizItemWellFormed(q) ==
    /\ FieldType(q, "options") = "array" /\ OptionsLength(q) = 4
    /\ FieldType(q, "correctAnswerIndex") = "number"
    /\ AnswerIndexHalves(q) % 2 = 0

\* C15: createQuiz throws its format error whenever some decoded item has
\* not exactly 4 options or has an answer index that is no integer, and
\* returns the items only when every item is well formed.
C15_QuizItemsChecked ==
    \A t \in Tasks :
        (InvokeReturned(t, "createQuiz") /\ lane[t][1].res.val.t = "array")
        => LET items == lane[t][1].res.val.items
               allGood == \A i \in 1..Len(items) : QuizItemWellFormed(items[i])
           IN  /\ task[t].out.kind = "return" => allGood
               /\ ~allGood => task[t].out.err = Err(MsgQuiz)

\* C16: for every number the remote service gives as rating, rateContent
\* embeds the number clamped to 1..5 and shows 5 marks: as many filled marks
\* as the clamped rating, the others empty (numbers in half units).
C16_RatingClamped ==
    \A t \in Tasks :
        (InvokeReturned(t, "rateContent") /\ IsRating(lane[t][1].res.val))
        => LET r == Halves(lane[t][1].res.val.lit)
               clamped == IF r < 2 THEN 2 ELSE IF r > 10 THEN 10 ELSE r
               marks == task[t].out.val.items
           IN  /\ task[t].out.kind = "return"
               /\ marks[3] = clamped
               /\ 2 * marks[1] = clamped
               /\ marks[1] + marks[2] = 5

\* The operations that test the shape of the decoded result and throw, the
\* test of each, and the format error each names itself in.
ValidatingOps ==
    {"createQuiz", "analyzeSentiment", "extractKeywords",
     "generateContentSuggestions", "rateContent"}
ShapeOk(op, v) ==
    IF op = "createQuiz" THEN IsQuiz(v)
    ELSE IF op = "analyzeSentiment" THEN IsSentiment(v)
    ELSE IF op = "rateContent" THEN IsRating(v)
    ELSE IsStringArray(v)
FormatError(op) ==
    IF op = "createQuiz" THEN Err(MsgQuiz)
    ELSE IF op = "analyzeSentiment" THEN Err(MsgSentiment)
    ELSE IF op = "extractKeywords" THEN Err(MsgKeywords)
    ELSE IF op = "rateContent" THEN Err(MsgRatingFormat)
    ELSE Err(MsgSuggestions)

\* C17: when callGeminiWithRetry returned and the decoded result fails the
\* test of the operation, the operation throws its own format error, and
\* nothing else; its frame issued no request after the one that succeeded.
C17_FormatErrorKept ==
    \A t \in Tasks, op \in ValidatingOps :
        (InvokeReturned(t, op) /\ ~ShapeOk(op, lane[t][1].res.val))
        => /\ task[t].out.kind = "throw"
           /\ task[t].out.err = FormatError(op)
           /\ lane[t][1].trace[Len(lane[t][1].trace)].e = "request"
           /\ lane[t][2].pc = "idle"

\* C18: when the decoded categories are not an array of strings,
\* categorizeContent returns the empty list and throws nothing, and
\* analyzeTextContent, its analysis text received, returns that text with
\* the empty list.
C18_CategoriesDegrade ==
    \A t \in Tasks :
        /\ (InvokeReturned(t, "categorizeContent") /\ ~IsStringArray(lane[t][1].res.val))
           => task[t].out = Returned(EmptyList)
        /\ (/\ task[t].op = "analyzeTextContent" /\ ~task[t].empty
            /\ lane[t][1].pc = "returned" /\ lane[t][2].pc = "returned"
            /\ ~IsStringArray(lane[t][2].res.val))
           => /\ task[t].pc = "done"
              /\ task[t].out = Returned(AnalysisVal(lane[t][1].res.val, ArrVal(<<>>)))

C18_Witness ==
    /\ task[1].op = "analyzeTextContent" /\ task[1].pc = "done"
    /\ lane[1][1].pc = "returned"
    /\ lane[1][2].pc = "returned" /\ lane[1][2].res.val = ArrVal(<<LitVal("n3")>>)

\* C19: analyzeTextContent on a non-empty input starts both calls in the
\* step of its call, each issuing its first request before the other has an
\* answer, and it returns only when both calls are finished.
C19_FanOutJoin ==
    \A t \in Tasks :
        (task[t].op = "analyzeTextContent" /\ ~task[t].empty)
        => /\ \A l \in Lanes :
                 /\ lane[t][l].pc # "idle"
                 /\ lane[t][l].aiInstance # 0
                       => lane[t][l].trace[1] = [e |-> "request", ms |-> 0]
           /\ (task[t].pc = "done" /\ task[t].out.kind = "return")
                 => \A l \in Lanes : Finished(lane[t][l])

C19_Witness ==
    /\ task[1].op = "analyzeTextContent" /\ ~task[1].empty
    /\ task[1].pc = "done" /\ task[1].out.kind = "return"
    /\ Len(lane[1][1].trace) = 1 /\ Len(lane[1][2].trace) = 5

\* C20: a callGeminiWithRetry frame returns on the first attempt whose
\* response passes: with k the number of that attempt, it has issued k
\* requests and waited k - 1 delays in turn, it returns what that response
\* gave in the step the response arrived, and it does nothing afterwards.
C20_FirstSuccessEnds ==
    [][\A t \in Tasks, l \in Lanes :
          (task'[t].op # "summarizeContent" /\ lane'[t][l].pc = "returned")
          => LET ln == lane'[t][l]
                 k == RetryAttempts - ln.attempts + 1
             IN  /\ k \in 1..RetryAttempts
                 /\ Len(ln.trace) = 2 * k - 1
                 /\ \A i \in 1..Len(ln.trace) :
                       ln.trace[i] = IF i % 2 = 1 THEN [e |-> "request", ms |-> 0]
                                     ELSE [e |-> "delay", ms |-> 1000]
                 /\ ln.res.kind = "return"
                 /\ IF lane[t][l].pc = "returned" THEN ln = lane[t][l]
                    ELSE /\ lane[t][l].pc = "awaiting"
                         /\ ln.trace = lane[t][l].trace
                         /\ \E resp \in ResponsesFor(task[t].op, l) :
                               ln.res = AttemptOutcome(resp, ln.structured)]_vars

C20_Witness ==
    \E t \in Tasks, l \in Lanes :
        /\ InvokeFrame(t, l) /\ lane[t][l].pc = "returned"
        /\ lane[t][l].attempts = 2 /\ Len(lane[t][l].trace) = 3

\* The responses whose text is absent, empty or only whitespace.
BlankResponses == {RespNoText, RespText(<<>>), RespText(<<WS>>)}

\* C21: callGeminiWithRetry never returns an absent, empty or blank text: a
\* returned free text has a token that is no whitespace and a returned
\* structure is a decoded value, and for every frame awaiting a response,
\* with or without structured output, a response with a blank text is a
\* failed attempt: attempts goes down by one and the frame waits or throws,
\* with the empty-response error if it throws.
C21_BlankTextIsFailure ==
    \A t \in Tasks, l \in Lanes :
        InvokeFrame(t, l)
        => LET ln == lane[t][l] IN
           /\ (ln.pc = "returned" /\ ~ln.structured)
                 => ln.res.val.t = "text" /\ Trim(ln.res.val.items) # <<>>
           /\ (ln.pc = "returned" /\ ln.structured)
                 => ln.res.val.t \notin {"text", "undefined"}
           /\ ln.pc = "awaiting"
                 => \A resp \in BlankResponses :
                       LET n == OnResponse(ln, resp) IN
                       /\ n.pc \in {"delay", "thrown"}
                       /\ n.attempts = ln.attempts - 1
                       /\ n.pc = "thrown"
                             => /\ n.res.fail = "EmptyResponse"
                                /\ n.res.err = Err(MsgEmptyResponse)

C21_Witness ==
    \E t \in Tasks :
        /\ task[t].op = "extractKeywords" /\ lane[t][1].structured
        /\ Exhausted(t, 1, "EmptyResponse")

\* A step in which task t calls an operation that calls getAiInstance once,
\* while no client exists.
FirstLookupStep(t) ==
    /\ task[t].pc = "idle" /\ task'[t].pc # "idle"
    /\ lane'[t][1].pc # "idle" /\ task'[t].op # "analyzeTextContent"
    /\ ai = 0

\* C22: getAiInstance takes the key from process.env.API_KEY first and from
\* localStorage second: a non-empty environment key is given to the
\* constructor and localStorage is not read; without it the stored key is
\* given to the constructor; with neither, API_KEY_MISSING is thrown and the
\* constructor is not called.
C22_CredentialPriority ==
    [][\A t \in Tasks :
          FirstLookupStep(t)
          => LET persisted == IF lsOk THEN lsKey ELSE ""
                 ln == lane'[t][1]
             IN  /\ envKey # ""
                       => /\ io'.lsReads = io.lsReads
                          /\ io'.ctorCalls = io.ctorCalls + 1
                          /\ CtorAccepts(envKey) <=> ln.aiInstance # 0
                 /\ (envKey = "" /\ persisted # "")
                       => /\ io'.ctorCalls = io.ctorCalls + 1
                          /\ CtorAccepts(persisted) <=> ln.aiInstance # 0
                 /\ (envKey = "" /\ persisted = "")
                       => /\ io'.ctorCalls = io.ctorCalls
                          /\ ln.res.err = Err(MsgKeyMissing)]_vars

\* C23: the client, once created, stays: no step sets the module variable ai
\* back to null or to another client, whatever a request or a stream ends
\* with, and ai is null exactly while no construction has succeeded.
C23_HandleStays ==
    [][/\ ai # 0 => ai' = ai
       /\ ai' = 0 <=> handles' = 0]_vars

C23_Witness ==
    /\ variant = "p0" /\ ai # 0
    /\ Exhausted(1, 1, "AuthRejection")
    /\ lane[1][1].res.err = Err(MsgKeyMissing)

\* C24: the fragments summarizeContent has yielded are the texts of the
\* chunks that arrived, in their order, each once, the empty ones left out;
\* a failure of the stream takes back none of them, and once the generator
\* has thrown or returned it yields nothing more.
C24_FragmentsInOrder ==
    [][\A t \in Tasks :
          (task'[t].op = "summarizeContent" /\ ~task'[t].empty)
          => LET ln == lane[t][1]
                 n == lane'[t][1]
             IN  /\ n.yielded = SelectSeq(n.arrived, LAMBDA c : c # <<>>)
                 /\ \A i \in 1..Len(n.yielded) : n.yielded[i] # <<>>
                 /\ n.pc = "thrown" => n.yielded = ln.yielded
                 /\ Finished(ln) => n = ln]_vars

C24_Witness ==
    /\ StreamFrame(1) /\ lane[1][1].pc = "thrown"
    /\ Len(lane[1][1].arrived) = 2 /\ lane[1][1].arrived[1] = <<>>
    /\ lane[1][1].yielded = <<lane[1][1].arrived[2]>>

\* The number of events of kind k in a trace.
Count(tr, k) == Cardinality({i \in 1..Len(tr) : tr[i].e = k})

\* C25: the retry budget belongs to one call: attempts is 3 when the call
\* starts, it goes down only by one and only when a request of that call
\* failed, a step of one call leaves the other call of the same operation
\* as it is, and so each call issues at most 3 requests, the two calls of
\* analyzeTextContent at most 6 together, however their steps interleave.
C25_BudgetPerCall ==
    [][\A t \in Tasks, l \in Lanes :
          (task'[t].op # "summarizeContent" /\ lane'[t][l].pc # "idle"
             /\ lane'[t][l].aiInstance # 0)
          => LET o == lane[t][l]
                 n == lane'[t][l]
             IN  /\ o.pc = "idle" => n.attempts = RetryAttempts
                 /\ n.attempts =
                       RetryAttempts - Count(n.trace, "delay")
                                     - (IF n.pc = "thrown" THEN 1 ELSE 0)
                 /\ Count(n.trace, "request") <= RetryAttempts
                 /\ Count(lane'[t][1].trace, "request")
                       + Count(lane'[t][2].trace, "request") <= 2 * RetryAttempts
                 /\ (o.pc # "idle" /\ n.attempts # o.attempts)
                       => /\ o.pc = "awaiting" /\ n.attempts = o.attempts - 1
                          /\ \A k \in Lanes \ {l} : lane'[t][k] = lane[t][k]]_vars

C25_Witness ==
    /\ task[1].op = "analyzeTextContent"
    /\ \A l \in Lanes :
          /\ Exhausted(1, l, "Transport")
          /\ Count(lane[1][l].trace, "request") = 3

\* The errors the catch block can receive from an attempt that failed with
\* kind k.
AttemptErrors(k) ==
    IF k = "EmptyResponse" THEN {Err(MsgEmptyResponse)}
    ELSE IF k = "EmptyStructuredResponse" THEN {Err(MsgEmptyJson)}
    ELSE IF k = "MalformedStructuredResponse" THEN {Err(MsgBadJson)}
    ELSE IF k = "AuthRejection" THEN {TAuth}
    ELSE TransportFailures \ {TAuth}

\* C26: the error thrown on exhaustion comes from the failure of the last
\* attempt alone: a frame that waits or has a request outstanding keeps no
\* error of an earlier attempt, and the error of a frame that has thrown is
\* what the catch block makes of an error of its last attempt.
C26_LastAttemptDecides ==
    \A t \in Tasks, l \in Lanes :
        InvokeFrame(t, l)
        => /\ lane[t][l].pc \in {"awaiting", "delay"} => lane[t][l].res = Pending
           /\ (lane[t][l].pc = "thrown" /\ lane[t][l].aiInstance # 0)
                 => \E e \in AttemptErrors(lane[t][l].res.fail) :
                       lane[t][l].res.err = ExhaustionError(variant, e)

C26_Witness ==
    \E t \in Tasks, l \in Lanes :
        /\ Exhausted(t, l, "EmptyStructuredResponse")
        /\ lane[t][l].res.err = Err(MsgEmptyJson)
        /\ Count(lane[t][l].trace, "delay") = 2

\* C27: when every request is answered and every timer fires, a
\* callGeminiWithRetry call that has a request outstanding or waits for its
\* timer comes to an end, returning or throwing, with at most 3 requests
\* and at most 2 delays behind it.
C27_InvokeTerminates ==
    \A l \in Lanes :
        [](/\ task[1].op # "summarizeContent"
           /\ lane[1][l].pc \in {"awaiting", "delay"}
           => <>(/\ Finished(lane[1][l])
                 /\ Count(lane[1][l].trace, "request") <= 3
                 /\ Count(lane[1][l].trace, "delay") <= 2))

C27_Witness ==
    \E l \in Lanes :
        /\ InvokeFrame(1, l) /\ lane[1][l].pc = "returned"
        /\ Count(lane[1][l].trace, "request") = 3
        /\ Count(lane[1][l].trace, "delay") = 2

\* The key getAiInstance resolves in the variant that runs.
ResolvedKey ==
    IF variant = "svc" /\ envKey # "" THEN envKey
    ELSE IF lsOk THEN lsKey ELSE ""

\* C28: a call whose getAiInstance throws API_KEY_MISSING changes nothing:
\* ai stays null, the key sources are as they were and no constructor call
\* was made; and the failure is not remembered: whenever an operation is
\* called while ai is null and a valid key resolves, the client is created.
C28_KeyMissingNoEffect ==
    [][\A t \in Tasks :
          (task[t].pc = "idle" /\ task'[t].pc # "idle" /\ lane'[t][1].pc # "idle")
          => /\ lane'[t][1].res = Threw(Err(MsgKeyMissing), "Handle")
                   => /\ ai = 0 /\ ai' = 0 /\ handles' = handles
                      /\ lsKey' = lsKey /\ envKey' = envKey /\ lsOk' = lsOk
                      /\ io'.ctorCalls = io.ctorCalls
             /\ (ai = 0 /\ CtorAccepts(ResolvedKey))
                   => ai' # 0 /\ lane'[t][1].aiInstance = ai']_vars

C28_Witness ==
    \E t \in Tasks, u \in Tasks :
        /\ lane[t][1].res = Threw(Err(MsgKeyMissing), "Handle")
        /\ lane[u][1].aiInstance # 0 /\ ai = lane[u][1].aiInstance

\* C29: categorizeContent throws nothing: when its call fails, for want of
\* a client or on exhaustion, it returns the empty list; so a finished
\* analyzeTextContent has thrown exactly when its analysis call threw, with
\* that call's error, and it returns once the analysis call has returned
\* and the categories call has ended in whatever way.
C29_CategoriesNeverThrow ==
    \A t \in Tasks :
        /\ (task[t].op = "categorizeContent" /\ ~task[t].empty /\ Finished(lane[t][1]))
           => /\ task[t].pc = "done" /\ task[t].out.kind = "return"
              /\ lane[t][1].pc = "thrown" => task[t].out = Returned(ArrVal(<<>>))
        /\ (task[t].op = "analyzeTextContent" /\ ~task[t].empty)
           => /\ task[t].pc = "done"
                    => /\ task[t].out.kind = "throw" <=> lane[t][1].pc = "thrown"
                       /\ task[t].out.kind = "throw" => task[t].out = lane[t][1].res
              /\ (lane[t][1].pc = "returned" /\ Finished(lane[t][2]))
                    => task[t].pc = "done" /\ task[t].out.kind = "return"

C29_Witness ==
    /\ task[1].op = "analyzeTextContent" /\ task[1].pc = "done"
    /\ task[1].out.kind = "return"
    /\ Exhausted(1, 2, "Transport")
    /\ task[1].out.val.items[2] = ArrVal(<<>>)

====
